---- MODULE Spec2Model ----
(***************************************************************************)
(* olo_rust: the typed access layer over the OneLOop engine.               *)
(*                                                                         *)
(* src/src/lib.rs    ResultOLO, olo_onshell, olo_N_point_complex, ffi      *)
(* src/src/python.rs PyOLOResult, olo_N_point_complex_py, set_olo_unit_py  *)
(*                                                                         *)
(* A call of an evaluation function is two steps: the wrapper creates its  *)
(* buffer and enters the engine; the engine writes the buffer and the      *)
(* wrapper returns it.  Between the two steps other threads run: lib.rs    *)
(* takes no lock.  The setters are one engine call each.                   *)
(***************************************************************************)
EXTENDS Integers, Sequences, FiniteSets, TLC

\* ------------------------------------------------------------------ bounds
\* Imaginary parts of the caller's inputs range over -MaxIm..MaxIm.
MaxIm == 1

\* ------------------------------------------------------------- value types
\* Complex64: << re, im >>.
Complex(re, im) == << re, im >>

Zero == Complex(0, 0)

\* A buffer left as the stack happened to be.
ResultOLO_uninit == [values |-> << Complex(1, 0), Zero, Zero >>]

\* #[derive(Default)] on ResultOLO: three zero coefficients.
ResultOLO_default == [values |-> << Zero, Zero, Zero >>]

\* The callers: lib.rs functions are safe `pub fn`s, callable from any thread.
Threads == {"t1", "t2"}

\* Renormalization scales a caller passes (tests/mu_scale.rs: 1.0 and 100.0).
Scales == {1, 100}

\* On-shell thresholds a caller passes, as the negated decimal exponent
\* (1e-10 in lib.rs's tests, 1e-12 in the engine's documented range).
Thresholds == {10, 12}

\* The standard-output sink of the engine (Fortran unit 6).
StdOut == 6

\* enum OLOUnit
OLOUnit == {"PrintAll", "Message", "Warning", "Error"}

\* Option<i32>: << >> is None, << v >> is Some(v).
None == << >>

Some(v) == << v >>

Destinations == {None, Some(0)}

\* ------------------------------------------------------- the caller's inputs
\* One kinematic point: << p1, p2, p3, p4, p12, p23, m1, m2, m3, m4 >>.
\* Every position holds a different real part, so that a permuted or dropped
\* argument is visible; im is the imaginary part of every non-zero entry
\* (positive: a mass the convention says to flip; non-zero: a momentum the
\* convention says is real); massless points are the IR-divergent ones.
KinPoint(im, massless) ==
    [i \in 1..10 |-> IF i > 6 /\ massless THEN Zero ELSE Complex(i, im)]

Kinematics ==
    {KinPoint(im, FALSE) : im \in (0 - MaxIm)..MaxIm}
        \cup {KinPoint(0, TRUE), [i \in 1..10 |-> Zero]}

VARIABLES
    kin,        \* the kinematic point the callers evaluate
    scale,      \* engine global: renormalization scale
    threshold,  \* engine global: on-shell threshold
    unit,       \* engine global: OLOUnit -> sink
    pc,         \* per thread: "idle", "ffi" (inside the engine), "done"
    frame,      \* per thread: the core function running, with its parameters
    engine,     \* per thread: what the engine received for the call in flight
    mem,        \* per address: the 3-element buffer `r` living there
    ret,        \* per thread: the value the last core call returned
    pyframe,    \* per thread: the binding-layer function running
    pyret,      \* per thread: the value the last binding-layer call returned
    stale,      \* per thread: a setter ran since the thread's last call began
    lastMu,     \* argument of the most recent scale setter call (<< >> if none)
    lastThr,    \* argument of the most recent threshold setter call
    held,       \* a ResultOLO a caller keeps in a local variable
    out         \* what the caller last read from `held`

vars == << kin, scale, threshold, unit, pc, frame, engine, mem, ret,
           pyframe, pyret, stale, lastMu, lastThr, held, out >>

config == << scale, threshold, unit >>

NoFrame == [fn |-> 0, args |-> << >>]

NoEngine == [entry |-> "", r |-> "", args |-> << >>, n |-> 0,
             mus |-> {}, thrs |-> {}, wrote |-> << >>]

NoRet == [kind |-> "none", values |-> << >>]

NoPyFrame == [fn |-> "", args |-> << >>, calls |-> 0]

NoOut == [op |-> "", val |-> << >>]


\* ------------------------------------------------- ResultOLO (lib.rs 23-58)
\* One static buffer shared by every call.
as_mut_ptr_static(t) == "t1"

\* The address of a buffer another call owned: a result returned earlier.
as_mut_ptr_earlier(t) == IF t = "t1" THEN "t2" ELSE "t1"

\* fn as_mut_ptr(&mut self): the address of the values array of the `r` that
\* lives in thread t's frame.  Addresses are named by the owning thread.
as_mut_ptr(t) == t

\* Positions 0, 1, 2 of `values` are indices 1, 2, 3 of the TLA+ sequence.
epsilon_0(res) == res.values[1]

\* The double pole read where the single pole is asked for.
epsilon_minus_1_swapped(res) == res.values[3]

epsilon_minus_1(res) == res.values[2]

epsilon_minus_2(res) == res.values[3]

\* Display for Complex64 (num_complex): "{re}+{im}i" or "{re}-{|im|}i".
fmt_Complex(c) ==
    IF c[2] < 0 THEN << c[1], "-", 0 - c[2], "i" >> ELSE << c[1], "+", c[2], "i" >>

\* impl fmt::Display for ResultOLO: the pieces write! emits, in order.  The
\* labels are spelled in ASCII here: "eps^0" is the source's label of the
\* finite part, "eps^-1" and "eps^-2" those of the single and double pole.
fmt_Display(res) ==
    << "eps^0: ", fmt_Complex(res.values[1]),
       ", eps^-1: ", fmt_Complex(res.values[2]),
       ", eps^-2: ", fmt_Complex(res.values[3]) >>

\* ------------------------------------------- the external engine (OneLOop)
\* The engine is a deterministic function of the entry point, the arguments in
\* their positions, and the two numerical globals; the log units are not read.
EntryNo(entry) ==
    CASE entry = "a0_c" -> 1 [] entry = "b0cc" -> 2
      [] entry = "c0cc" -> 3 [] entry = "d0cc" -> 4

CCode(c) == c[1] * 16 + c[2] + 8

RECURSIVE WeightedSum(_, _)
WeightedSum(args, i) ==
    IF i > Len(args) THEN 0
    ELSE (i * i + 1) * CCode(args[i]) + WeightedSum(args, i + 1)

\* The squared masses among an entry point's arguments.
Masses(entry, args) ==
    CASE entry = "a0_c" -> args
      [] entry = "b0cc" -> SubSeq(args, 2, 3)
      [] entry = "c0cc" -> SubSeq(args, 4, 6)
      [] entry = "d0cc" -> SubSeq(args, 7, 10)

Massless(entry, args) ==
    \A i \in DOMAIN Masses(entry, args) : Masses(entry, args)[i] = Zero

\* Triangles and boxes have poles exactly when IR-divergent (massless lines).
IRDivergent(entry, args) == entry \in {"c0cc", "d0cc"} /\ Massless(entry, args)

\* The integrals whose value moves with the renormalization scale.
ScaleDependent(entry, args) ==
    \/ entry = "a0_c" /\ args[1] # Zero
    \/ entry = "b0cc"
    \/ IRDivergent(entry, args)

EngineValue(entry, args, mu, thr) ==
    IF entry = "a0_c" /\ args[1] = Zero THEN << Zero, Zero, Zero >>
    ELSE LET h == WeightedSum(args, 1)
             m == IF ScaleDependent(entry, args) THEN mu ELSE 0
         IN << Complex(EntryNo(entry) * 10000000 + h * 1000 + m, 0 - thr),
               IF IRDivergent(entry, args) THEN Complex(h + 1 + m, 0)
               ELSE IF entry = "b0cc" THEN Complex(1, 0) ELSE Zero,
               IF IRDivergent(entry, args) THEN Complex(1, 0) ELSE Zero >>

\* An evaluation entry point is entered: the engine holds the buffer address and
\* the arguments, and from now on reads its globals (mus, thrs: the values in
\* effect at some time during the call; an unsynchronized read may see any;
\* once the call is over, the values it computed with).
EngineEnter(t, entry, r, args) ==
    engine' = [engine EXCEPT ![t] =
                 [entry |-> entry, r |-> r, args |-> args, n |-> 1,
                  mus |-> {scale}, thrs |-> {threshold}, wrote |-> << >>]]

\* The engine's scale entry point stores mu.
EngineSetScale(mu) ==
    /\ scale' = mu
    /\ engine' = [u \in Threads |->
                    IF pc[u] = "ffi" THEN [engine[u] EXCEPT !.mus = @ \cup {mu}]
                    ELSE engine[u]]

\* __avh_olo_dp_MOD_olo_onshell stores the threshold.
EngineSetOnshell(thr) ==
    /\ threshold' = thr
    /\ engine' = [u \in Threads |->
                    IF pc[u] = "ffi" THEN [engine[u] EXCEPT !.thrs = @ \cup {thr}]
                    ELSE engine[u]]

\* The engine's unit entry point stores the sink of one severity class.
EngineSetUnit(u, sink) == unit' = [unit EXCEPT ![u] = sink]

\* A setter call is over: every call in flight or result held is marked.
MarkStale == stale' = [u \in Threads |-> pc[u] # "idle"]


\* --------------------------------------- the core functions (lib.rs 107-237)
\* The argument list each wrapper hands to its entry point, after the buffer.
a0_c_args(m) == << m >>

b0cc_args(p, m1, m2) == << p, m1, m2 >>

c0cc_args(p1, p2, p3, m1, m2, m3) == << p1, p2, p3, m1, m2, m3 >>

\* The wrapper applying the sign convention itself to the squared masses.
flip(m) == IF m[2] > 0 THEN Complex(m[1], 0 - m[2]) ELSE m

d0cc_args_flipped(p1, p2, p3, p4, p12, p23, m1, m2, m3, m4) ==
    << p1, p2, p3, p4, p12, p23, flip(m1), flip(m2), flip(m3), flip(m4) >>

d0cc_args(p1, p2, p3, p4, p12, p23, m1, m2, m3, m4) ==
    << p1, p2, p3, p4, p12, p23, m1, m2, m3, m4 >>

\* A hard-coded 1e-10 handed to the engine.
olo_onshell_arg_fixed(thr) == 10

\* The value olo_onshell hands to the engine: &threshold.
olo_onshell_arg(thr) == thr

\* let mut r = ResultOLO::default(); unsafe { ffi::entry(r.as_mut_ptr(), ..) }
\* The caller's previous result is dropped when it calls again.
EvalBegin(t, fn, params, entry, ffiargs) ==
    /\ pc[t] # "ffi"
    /\ pc' = [pc EXCEPT ![t] = "ffi"]
    /\ frame' = [frame EXCEPT ![t] = [fn |-> fn, args |-> params]]
    /\ mem' = [mem EXCEPT ![t] = ResultOLO_default.values]
    /\ EngineEnter(t, entry, as_mut_ptr(t), ffiargs)
    /\ ret' = [ret EXCEPT ![t] = NoRet]
    /\ stale' = [stale EXCEPT ![t] = FALSE]
    /\ UNCHANGED << kin, scale, threshold, unit, lastMu, lastThr >>

olo_1_point_complex(t, m) ==
    EvalBegin(t, 1, << m >>, "a0_c", a0_c_args(m))

olo_2_point_complex(t, p, m1, m2) ==
    EvalBegin(t, 2, << p, m1, m2 >>, "b0cc", b0cc_args(p, m1, m2))

olo_3_point_complex(t, p1, p2, p3, m1, m2, m3) ==
    EvalBegin(t, 3, << p1, p2, p3, m1, m2, m3 >>, "c0cc",
              c0cc_args(p1, p2, p3, m1, m2, m3))

olo_4_point_complex(t, p1, p2, p3, p4, p12, p23, m1, m2, m3, m4) ==
    EvalBegin(t, 4, << p1, p2, p3, p4, p12, p23, m1, m2, m3, m4 >>, "d0cc",
              d0cc_args(p1, p2, p3, p4, p12, p23, m1, m2, m3, m4))

\* The value a core function returns: its own `r`, as it is in memory.
returned_r(memory, t) == [kind |-> "ResultOLO", values |-> memory[t]]

\* The engine writes the buffer it was given and returns; the wrapper's last
\* expression `r` returns the wrapper's own buffer by value.
EvalEnd(t) ==
    /\ pc[t] = "ffi"
    /\ \E mu \in engine[t].mus, thr \in engine[t].thrs :
         LET v == EngineValue(engine[t].entry, engine[t].args, mu, thr)
             written == [mem EXCEPT ![engine[t].r] = v]
         IN /\ mem' = written
            /\ engine' = [engine EXCEPT ![t].wrote = v,
                                        ![t].mus = {mu}, ![t].thrs = {thr}]
            /\ ret' = [ret EXCEPT ![t] = returned_r(written, t)]
    /\ pc' = [pc EXCEPT ![t] = "done"]
    /\ UNCHANGED << kin, scale, threshold, unit, frame, stale, lastMu, lastThr >>

\* The threshold setter also resetting the scale.
olo_onshell_rescale(t, thr) ==
    /\ pc[t] # "ffi"
    /\ EngineSetOnshell(olo_onshell_arg(thr))
    /\ scale' = 1
    /\ lastThr' = << thr >>
    /\ MarkStale
    /\ UNCHANGED << kin, unit, pc, frame, mem, ret, lastMu >>

\* pub fn olo_onshell(threshold: f64)
olo_onshell(t, thr) ==
    /\ pc[t] # "ffi"
    /\ EngineSetOnshell(olo_onshell_arg(thr))
    /\ lastThr' = << thr >>
    /\ MarkStale
    /\ UNCHANGED << kin, scale, unit, pc, frame, mem, ret, lastMu >>

\* pub fn olo_renormalization_scale(mu: f64)
olo_renormalization_scale(t, mu) ==
    /\ pc[t] # "ffi"
    /\ EngineSetScale(mu)
    /\ lastMu' = << mu >>
    /\ MarkStale
    /\ UNCHANGED << kin, threshold, unit, pc, frame, mem, ret, lastThr >>

\* pub fn olo_unit(unit: OLOUnit, value: Option<i32>), also exported as
\* set_log_level: an absent destination is the standard-output sink.
olo_unit(t, u, value) ==
    /\ pc[t] # "ffi"
    /\ EngineSetUnit(u, IF value = None THEN StdOut ELSE value[1])
    /\ MarkStale
    /\ UNCHANGED << kin, scale, threshold, pc, frame, engine, mem, ret,
                    lastMu, lastThr >>

\* ---------------------------------------------- callers of the core functions
one_point(t) == olo_1_point_complex(t, kin[7]) /\ UNCHANGED << pyframe, pyret, held, out >>

two_point(t) ==
    olo_2_point_complex(t, kin[1], kin[7], kin[8]) /\ UNCHANGED << pyframe, pyret, held, out >>

three_point(t) ==
    /\ olo_3_point_complex(t, kin[1], kin[2], kin[3], kin[7], kin[8], kin[9])
    /\ UNCHANGED << pyframe, pyret, held, out >>

four_point(t) ==
    /\ olo_4_point_complex(t, kin[1], kin[2], kin[3], kin[4], kin[5], kin[6],
                           kin[7], kin[8], kin[9], kin[10])
    /\ UNCHANGED << pyframe, pyret, held, out >>

evaluation_returns(t) == EvalEnd(t) /\ UNCHANGED << pyframe, pyret, held, out >>

set_onshell_threshold(t) ==
    \E thr \in Thresholds : olo_onshell(t, thr) /\ UNCHANGED << pyframe, pyret, held, out >>

set_renormalization_scale(t) ==
    \E mu \in Scales :
        olo_renormalization_scale(t, mu) /\ UNCHANGED << pyframe, pyret, held, out >>

\* ------------------------------------------ the binding layer (python.rs)
\* A &str is the sequence of its characters.
Upper == << "A", "B", "C", "D", "E", "F", "G", "H", "I", "J", "K", "L", "M",
            "N", "O", "P", "Q", "R", "S", "T", "U", "V", "W", "X", "Y", "Z" >>

Lower == << "a", "b", "c", "d", "e", "f", "g", "h", "i", "j", "k", "l", "m",
            "n", "o", "p", "q", "r", "s", "t", "u", "v", "w", "x", "y", "z" >>

\* char::to_lowercase, on the characters the callers use.
lower_char ==
    [c \in {Upper[k] : k \in DOMAIN Upper} \cup {Lower[k] : k \in DOMAIN Lower}
            \cup {"_"} |->
        IF \E k \in DOMAIN Upper : Upper[k] = c
        THEN Lower[CHOOSE k \in DOMAIN Upper : Upper[k] = c]
        ELSE c]

\* The name matched as it was spelled.
to_lowercase_asis(str) == str

\* str::to_lowercase
to_lowercase(str) == [i \in DOMAIN str |-> lower_char[str[i]]]

\* The unit names a Python caller passes.
UnitNames ==
    { << "p", "r", "i", "n", "t", "a", "l", "l" >>,
      << "P", "r", "i", "n", "t", "A", "l", "l" >>,
      << "M", "E", "S", "S", "A", "G", "E" >>,
      << "W", "a", "r", "n", "i", "n", "g" >>,
      << "e", "r", "r", "o", "r" >>,
      << "e", "r", "r", "o", "r", "s" >>,
      << "p", "r", "i", "n", "t", "_", "a", "l", "l" >>,
      << >> }

\* The `_` arm falling back to a default unit.
match_unit_fallback(lowered) ==
    CASE lowered = << "p", "r", "i", "n", "t", "a", "l", "l" >> -> "PrintAll"
      [] lowered = << "m", "e", "s", "s", "a", "g", "e" >> -> "Message"
      [] lowered = << "w", "a", "r", "n", "i", "n", "g" >> -> "Warning"
      [] lowered = << "e", "r", "r", "o", "r" >> -> "Error"
      [] OTHER -> "PrintAll"

\* The match of set_olo_unit_py on the lowercased name; "Invalid" is the `_` arm.
match_unit(lowered) ==
    CASE lowered = << "p", "r", "i", "n", "t", "a", "l", "l" >> -> "PrintAll"
      [] lowered = << "m", "e", "s", "s", "a", "g", "e" >> -> "Message"
      [] lowered = << "w", "a", "r", "n", "i", "n", "g" >> -> "Warning"
      [] lowered = << "e", "r", "r", "o", "r" >> -> "Error"
      [] OTHER -> "Invalid"

\* impl From<OLOResult> for PyOLOResult
PyOLOResult_from(value) == [kind |-> "PyOLOResult", inner |-> value]

\* The #[getter]s of PyOLOResult.
py_epsilon_0(self) == epsilon_0(self.inner)

py_epsilon_minus_1(self) == epsilon_minus_1(self.inner)

\* A getter copied from its neighbour.
py_epsilon_minus_2_copied(self) == epsilon_minus_1(self.inner)

py_epsilon_minus_2(self) == epsilon_minus_2(self.inner)

\* The binding-layer function fn is entered with args and calls the core once.
PyEnter(t, fn, args) ==
    /\ pyframe' = [pyframe EXCEPT ![t] = [fn |-> fn, args |-> args, calls |-> 1]]
    /\ pyret' = [pyret EXCEPT ![t] = [kind |-> "none", inner |-> NoRet]]
    /\ UNCHANGED << held, out >>

olo_1_point_complex_py(t, m) ==
    /\ olo_1_point_complex(t, m)
    /\ PyEnter(t, "olo_1_point_complex_py", << m >>)

olo_2_point_complex_py(t, p, m1, m2) ==
    /\ olo_2_point_complex(t, p, m1, m2)
    /\ PyEnter(t, "olo_2_point_complex_py", << p, m1, m2 >>)

olo_3_point_complex_py(t, p1, p2, p3, m1, m2, m3) ==
    /\ olo_3_point_complex(t, p1, p2, p3, m1, m2, m3)
    /\ PyEnter(t, "olo_3_point_complex_py", << p1, p2, p3, m1, m2, m3 >>)

olo_4_point_complex_py(t, p1, p2, p3, p4, p12, p23, m1, m2, m3, m4) ==
    /\ olo_4_point_complex(t, p1, p2, p3, p4, p12, p23, m1, m2, m3, m4)
    /\ PyEnter(t, "olo_4_point_complex_py",
               << p1, p2, p3, p4, p12, p23, m1, m2, m3, m4 >>)

\* `.into()`: the core function has returned and its value is wrapped.
py_into(t) ==
    /\ pyframe[t].calls = 1
    /\ EvalEnd(t)
    /\ pyret' = [pyret EXCEPT ![t] = PyOLOResult_from(ret'[t])]
    /\ UNCHANGED << pyframe, held, out >>

\* A binding-layer setter has run: calls counts its calls of the core setter.
PySetterDone(t, fn, calls, kind) ==
    /\ pyframe' = [pyframe EXCEPT ![t] = [fn |-> fn, args |-> << >>, calls |-> calls]]
    /\ pyret' = [pyret EXCEPT ![t] = [kind |-> kind, inner |-> NoRet]]
    /\ UNCHANGED << held, out >>

olo_scale_py(t, mu) ==
    /\ olo_renormalization_scale(t, mu)
    /\ PySetterDone(t, "olo_scale_py", 1, "unit")

olo_onshell_py(t, thr) ==
    /\ olo_onshell(t, thr)
    /\ PySetterDone(t, "olo_onshell_py", 1, "unit")

\* The unit setter handing the destination to the threshold entry point.
set_olo_unit_py_onshell(t, unit_name, value) ==
    LET u == match_unit(to_lowercase(unit_name))
    IN IF u \in OLOUnit
       THEN /\ pc[t] # "ffi"
            /\ EngineSetOnshell(IF value = None THEN StdOut ELSE value[1])
            /\ MarkStale
            /\ PySetterDone(t, "set_olo_unit_py", 1, "Ok")
            /\ UNCHANGED << kin, scale, unit, pc, frame, mem, ret, lastMu, lastThr >>
       ELSE /\ pc[t] # "ffi"
            /\ PySetterDone(t, "set_olo_unit_py", 0, "Err")
            /\ UNCHANGED << kin, scale, threshold, unit, pc, frame, engine, mem,
                            ret, stale, lastMu, lastThr >>

set_olo_unit_py(t, unit_name, value) ==
    LET u == match_unit(to_lowercase(unit_name))
    IN IF u \in OLOUnit
       THEN /\ olo_unit(t, u, value)
            /\ PySetterDone(t, "set_olo_unit_py", 1, "Ok")
       ELSE /\ pc[t] # "ffi"
            /\ PySetterDone(t, "set_olo_unit_py", 0, "Err")
            /\ UNCHANGED << kin, scale, threshold, unit, pc, frame, engine, mem,
                            ret, stale, lastMu, lastThr >>

\* ------------------------------------------------- callers from Python code
py_one_point(t) == olo_1_point_complex_py(t, kin[7])

py_two_point(t) == olo_2_point_complex_py(t, kin[1], kin[7], kin[8])

py_three_point(t) ==
    olo_3_point_complex_py(t, kin[1], kin[2], kin[3], kin[7], kin[8], kin[9])

py_four_point(t) ==
    olo_4_point_complex_py(t, kin[1], kin[2], kin[3], kin[4], kin[5], kin[6],
                           kin[7], kin[8], kin[9], kin[10])

py_set_scale(t) == \E mu \in Scales : olo_scale_py(t, mu)

py_set_onshell(t) == \E thr \in Thresholds : olo_onshell_py(t, thr)

py_set_unit(t) ==
    \E name \in UnitNames, value \in Destinations : set_olo_unit_py(t, name, value)

Init ==
    /\ kin \in Kinematics
    /\ scale \in Scales
    /\ threshold \in Thresholds
    /\ unit = [u \in OLOUnit |-> StdOut]
    /\ pc = [t \in Threads |-> "idle"]
    /\ frame = [t \in Threads |-> NoFrame]
    /\ engine = [t \in Threads |-> NoEngine]
    /\ mem = [t \in Threads |-> << >>]
    /\ ret = [t \in Threads |-> NoRet]
    /\ pyframe = [t \in Threads |-> NoPyFrame]
    /\ pyret = [t \in Threads |-> [kind |-> "none", inner |-> NoRet]]
    /\ stale = [t \in Threads |-> FALSE]
    /\ lastMu = << >>
    /\ lastThr = << >>
    /\ held = NoRet
    /\ out = NoOut

\* Threads of a Rust program calling the core functions, with no lock between.
Next ==
    \E t \in Threads :
        \/ one_point(t)
        \/ two_point(t)
        \/ three_point(t)
        \/ four_point(t)
        \/ evaluation_returns(t)
        \/ set_onshell_threshold(t)
        \/ set_renormalization_scale(t)

Spec == Init /\ [][Next]_vars

\* The thread of a Python program: the functions of the extension module run
\* with the interpreter lock held, one at a time.
PyThread == "t1"

NextPy ==
    \/ py_one_point(PyThread)
    \/ py_two_point(PyThread)
    \/ py_three_point(PyThread)
    \/ py_four_point(PyThread)
    \/ py_into(PyThread)
    \/ py_set_scale(PyThread)
    \/ py_set_onshell(PyThread)
    \/ py_set_unit(PyThread)

SpecPy == Init /\ [][NextPy]_vars


\* ------------------------------------- a caller reading a result it holds
\* The buffers the engine can have written for the callers' inputs.
EngineOutputs ==
    {EngineValue(e[1], e[2], mu, thr) :
        e \in {<< "a0_c", a0_c_args(k[7]) >> : k \in Kinematics}
            \cup {<< "b0cc", b0cc_args(k[1], k[7], k[8]) >> : k \in Kinematics}
            \cup {<< "c0cc", c0cc_args(k[1], k[2], k[3], k[7], k[8], k[9]) >> :
                    k \in Kinematics}
            \cup {<< "d0cc", d0cc_args(k[1], k[2], k[3], k[4], k[5], k[6],
                                       k[7], k[8], k[9], k[10]) >> :
                    k \in Kinematics},
        mu \in Scales, thr \in Thresholds}

\* A core function has returned `held`; the engine wrote mem["t1"] for it.
InitHeld ==
    /\ kin \in Kinematics
    /\ scale \in Scales
    /\ threshold \in Thresholds
    /\ unit = [u \in OLOUnit |-> StdOut]
    /\ pc = [t \in Threads |-> "idle"]
    /\ frame = [t \in Threads |-> NoFrame]
    /\ engine = [t \in Threads |-> NoEngine]
    /\ \E b \in EngineOutputs :
         /\ mem = [t \in Threads |-> IF t = "t1" THEN b ELSE << >>]
         /\ held = returned_r(mem, "t1")
    /\ ret = [t \in Threads |-> NoRet]
    /\ pyframe = [t \in Threads |-> NoPyFrame]
    /\ pyret = [t \in Threads |-> [kind |-> "none", inner |-> NoRet]]
    /\ stale = [t \in Threads |-> FALSE]
    /\ lastMu = << >>
    /\ lastThr = << >>
    /\ out = NoOut

Read(op, val) ==
    /\ out' = [op |-> op, val |-> val]
    /\ UNCHANGED << kin, scale, threshold, unit, pc, frame, engine, mem, ret,
                    pyframe, pyret, stale, lastMu, lastThr, held >>

read_epsilon_0 == Read("epsilon_0", epsilon_0(held))

read_epsilon_minus_1 == Read("epsilon_minus_1", epsilon_minus_1(held))

read_epsilon_minus_2 == Read("epsilon_minus_2", epsilon_minus_2(held))

\* println!("{}", r)
print_result == Read("Display", fmt_Display(held))

NextHeld ==
    \/ read_epsilon_0
    \/ read_epsilon_minus_1
    \/ read_epsilon_minus_2
    \/ print_result

SpecHeld == InitHeld /\ [][NextHeld]_vars


\* =================================================================== claims
Zeros == << Zero, Zero, Zero >>

\* The entry point and the values the callers pass to core function fn.
EntryOf(fn) ==
    CASE fn = 1 -> "a0_c" [] fn = 2 -> "b0cc" [] fn = 3 -> "c0cc" [] fn = 4 -> "d0cc"

CallerArgs(fn) ==
    CASE fn = 1 -> << kin[7] >>
      [] fn = 2 -> << kin[1], kin[7], kin[8] >>
      [] fn = 3 -> << kin[1], kin[2], kin[3], kin[7], kin[8], kin[9] >>
      [] fn = 4 -> << kin[1], kin[2], kin[3], kin[4], kin[5], kin[6],
                      kin[7], kin[8], kin[9], kin[10] >>

\* C1: setters and evaluation calls are mutually exclusive on the engine: no
\* evaluation is in progress while a setter changes the configuration, so an
\* evaluation in progress has run under the one configuration now in effect.
C1_MutualExclusion ==
    \A t \in Threads :
        pc[t] = "ffi" =>
            /\ engine[t].mus = {scale}
            /\ engine[t].thrs = {threshold}

\* C2: an evaluation that no setter call overlapped or followed ran under the
\* scale and the threshold passed to the most recent call of each setter, and
\* returned the engine's value for them; and two evaluations of the same
\* scale-dependent inputs, one under scale 1 and one under scale 100 with the
\* same threshold, returned different results.
C2_LastWriteWins ==
    /\ \A t \in Threads :
         (pc[t] = "done" /\ ~stale[t]) =>
            /\ lastMu # << >> => engine[t].mus = {lastMu[1]}
            /\ lastThr # << >> => engine[t].thrs = {lastThr[1]}
            /\ \E mu \in engine[t].mus, thr \in engine[t].thrs :
                 ret[t].values =
                    EngineValue(EntryOf(frame[t].fn), frame[t].args, mu, thr)
    /\ \A t, u \in Threads :
         ( /\ pc[t] = "done" /\ pc[u] = "done"
           /\ frame[t] = frame[u]
           /\ ScaleDependent(EntryOf(frame[t].fn), frame[t].args)
           /\ engine[t].mus = {1} /\ engine[u].mus = {100}
           /\ engine[t].thrs = engine[u].thrs )
         => ret[t].values # ret[u].values

\* C2's case: a result computed under scale 1 is held, the scale was then set
\* to 100, and the same IR-divergent triangle evaluated again.
C2_Witness ==
    \E t, u \in Threads :
        /\ pc[t] = "done" /\ pc[u] = "done" /\ stale[t] /\ ~stale[u]
        /\ frame[t] = frame[u] /\ frame[t].fn = 3
        /\ IRDivergent("c0cc", frame[t].args)
        /\ lastMu = << 100 >> /\ lastThr # << >>
        /\ engine[t].mus = {1} /\ engine[u].mus = {100}
        /\ engine[t].thrs = engine[u].thrs
        /\ ret[t].values # ret[u].values

\* C3: two calls of the same evaluation function with identical arguments and
\* no setter call since the earlier one began return equal results.
C3_Idempotent ==
    \A t, u \in Threads :
        ( /\ pc[t] = "done" /\ pc[u] = "done"
          /\ ~stale[t] /\ ~stale[u]
          /\ frame[t] = frame[u] )
        => ret[t] = ret[u]

C3_Witness ==
    \E t, u \in Threads :
        /\ t # u
        /\ pc[t] = "done" /\ pc[u] = "done"
        /\ ~stale[t] /\ ~stale[u]
        /\ frame[t] = frame[u]
        /\ ret[t] = ret[u]
        /\ ret[t].values[1] # Zero

\* C7: an evaluation call creates its own zeroed 3-element buffer, enters the
\* engine once with that buffer's address, returns nothing before the engine is
\* done, and then returns exactly what the engine wrote.
C7_OneEngineCall ==
    \A t \in Threads :
        /\ pc[t] = "ffi" =>
              /\ engine[t].n = 1
              /\ engine[t].r = t
              /\ mem[engine[t].r] = Zeros
              /\ engine[t].wrote = << >>
              /\ ret[t] = NoRet
        /\ pc[t] = "done" =>
              /\ engine[t].n = 1
              /\ engine[t].r = t
              /\ Len(engine[t].wrote) = 3
              /\ ret[t] = [kind |-> "ResultOLO", values |-> engine[t].wrote]

C7_Witness ==
    \E t, u \in Threads :
        /\ pc[t] = "done" /\ pc[u] = "ffi"
        /\ ret[t].values[1] # Zero
        /\ ret[t].values = engine[t].wrote
        /\ mem[u] = Zeros

\* C10: every argument reaches the engine with the caller's value, in the
\* declared position, whatever its imaginary part, and the call returns a
\* result, not an error.
C10_ArgumentsUnaltered ==
    \A t \in Threads :
        /\ pc[t] # "idle" =>
              /\ engine[t].entry = EntryOf(frame[t].fn)
              /\ engine[t].args = CallerArgs(frame[t].fn)
        /\ pc[t] = "done" => ret[t].kind = "ResultOLO"

\* C10's case: a box with squared masses of positive imaginary part and squared
\* momenta of non-zero imaginary part has been evaluated.
C10_Witness ==
    \E t \in Threads :
        /\ pc[t] = "done" /\ frame[t].fn = 4
        /\ kin[7][2] > 0 /\ kin[5][2] # 0
        /\ engine[t].args = kin
        /\ ret[t].kind = "ResultOLO"


\* The lowercased names set_olo_unit_py recognizes.
RecognizedNames ==
    { << "p", "r", "i", "n", "t", "a", "l", "l" >>,
      << "m", "e", "s", "s", "a", "g", "e" >>,
      << "w", "a", "r", "n", "i", "n", "g" >>,
      << "e", "r", "r", "o", "r" >> }

\* The names a caller passes that are none of them, in any letter case.
UnrecognizedNames == {name \in UnitNames : to_lowercase(name) \notin RecognizedNames}

\* C4: set_olo_unit_py with a name that is none of the four recognized ones
\* returns the invalid-argument error without calling the core setter (hence
\* the engine), and leaves scale, threshold and log units as they were.
C4_InvalidUnitRejected ==
    [][ \/ /\ pyret'[PyThread].kind = "Err"
           /\ pyframe'[PyThread].calls = 0
           /\ config' = config
           /\ engine' = engine
        \/ \A name \in UnrecognizedNames, value \in Destinations :
              ~set_olo_unit_py(PyThread, name, value) ]_vars

\* C4's case: the error was returned with every setting away from its default.
C4_Witness ==
    /\ pyret[PyThread].kind = "Err"
    /\ pyframe[PyThread] = [fn |-> "set_olo_unit_py", args |-> << >>, calls |-> 0]
    /\ lastMu = << 100 >> /\ scale = 100
    /\ lastThr = << 12 >> /\ threshold = 12
    /\ unit["Error"] = 0

\* C5: an evaluation call, from its start to its return, leaves scale,
\* threshold and log units unchanged; the scale setter leaves threshold and
\* units unchanged, the threshold setter scale and units, and the log-level
\* setter scale and threshold.
C5_Frame ==
    [][ /\ ( \/ olo_1_point_complex(PyThread, kin[7])
             \/ olo_2_point_complex(PyThread, kin[1], kin[7], kin[8])
             \/ olo_3_point_complex(PyThread, kin[1], kin[2], kin[3],
                                    kin[7], kin[8], kin[9])
             \/ olo_4_point_complex(PyThread, kin[1], kin[2], kin[3], kin[4],
                                    kin[5], kin[6], kin[7], kin[8], kin[9], kin[10])
             \/ EvalEnd(PyThread) )
           => config' = config
        /\ (\E mu \in Scales : olo_renormalization_scale(PyThread, mu))
           => (threshold' = threshold /\ unit' = unit)
        /\ (\E thr \in Thresholds : olo_onshell(PyThread, thr))
           => (scale' = scale /\ unit' = unit)
        /\ (\E u \in OLOUnit, value \in Destinations : olo_unit(PyThread, u, value))
           => (scale' = scale /\ threshold' = threshold) ]_vars

\* C5's case: every setter has moved its own setting away from the default
\* and an evaluation has returned under them.
C5_Witness ==
    /\ pc[PyThread] = "done" /\ ~stale[PyThread]
    /\ lastMu = << 100 >> /\ scale = 100
    /\ lastThr = << 12 >> /\ threshold = 12
    /\ unit["Warning"] = 0 /\ unit["Error"] = StdOut

\* C6: the log level does not influence results, as the two conditions that
\* make runs differing only in log-level calls return the same results: an
\* evaluation returns the engine's value for its arguments and the scale and
\* threshold in effect, whatever the log units are; and a log-level call, with
\* any name and destination, leaves scale and threshold as they were.
C6_LogLevelNoInfluence ==
    /\ [](\A dest \in [OLOUnit -> {StdOut, 0}] :
            ( /\ unit = dest
              /\ pc[PyThread] = "done" /\ ~stale[PyThread] )
            => /\ ret[PyThread].values =
                    EngineValue(EntryOf(frame[PyThread].fn),
                                CallerArgs(frame[PyThread].fn), scale, threshold)
               /\ lastMu # << >> => scale = lastMu[1]
               /\ lastThr # << >> => threshold = lastThr[1])
    /\ [][ \/ (scale' = scale /\ threshold' = threshold
               /\ lastMu' = lastMu /\ lastThr' = lastThr)
           \/ \A name \in UnitNames, value \in Destinations :
                 ~set_olo_unit_py(PyThread, name, value) ]_vars

\* C6's case: the same evaluation under the same scale and threshold, with
\* the log units redirected before it.
C6_Witness ==
    /\ pc[PyThread] = "done" /\ ~stale[PyThread]
    /\ lastMu # << >> /\ lastThr # << >>
    /\ unit["PrintAll"] = 0 /\ unit["Message"] = 0
    /\ ret[PyThread].values[1] # Zero
    /\ ret[PyThread].values =
          EngineValue(EntryOf(frame[PyThread].fn), CallerArgs(frame[PyThread].fn),
                      scale, threshold)

\* C8: epsilon_0, epsilon_minus_1 and epsilon_minus_2 return positions 0, 1
\* and 2 of the buffer the engine wrote, the display form lists them in that
\* order, and reading leaves the result as it was returned.
C8_Accessors ==
    /\ held = [kind |-> "ResultOLO", values |-> mem["t1"]]
    /\ out.op = "epsilon_0" => out.val = mem["t1"][1]
    /\ out.op = "epsilon_minus_1" => out.val = mem["t1"][2]
    /\ out.op = "epsilon_minus_2" => out.val = mem["t1"][3]
    /\ out.op = "Display" =>
          out.val = << "eps^0: ", fmt_Complex(mem["t1"][1]),
                       ", eps^-1: ", fmt_Complex(mem["t1"][2]),
                       ", eps^-2: ", fmt_Complex(mem["t1"][3]) >>

\* C8's case: the single pole was read from a result with three different
\* coefficients.
C8_Witness ==
    /\ out.op = "epsilon_minus_1"
    /\ out.val = mem["t1"][2]
    /\ mem["t1"][1] # mem["t1"][2]
    /\ mem["t1"][2] # mem["t1"][3]
    /\ mem["t1"][1] # mem["t1"][3]

PyEvalNo(fn) ==
    CASE fn = "olo_1_point_complex_py" -> 1
      [] fn = "olo_2_point_complex_py" -> 2
      [] fn = "olo_3_point_complex_py" -> 3
      [] fn = "olo_4_point_complex_py" -> 4
      [] OTHER -> 0

\* C9: olo_N_point_complex_py calls core function N once with its own
\* arguments in their order, and the getters of the PyOLOResult it returns
\* equal the same-named accessors of the core function's result.
C9_BindingUnchanged ==
    \A t \in Threads :
        PyEvalNo(pyframe[t].fn) # 0 =>
            /\ pyframe[t].calls = 1
            /\ frame[t] = [fn |-> PyEvalNo(pyframe[t].fn), args |-> pyframe[t].args]
            /\ pyframe[t].args = CallerArgs(frame[t].fn)
            /\ pc[t] = "done" =>
                  /\ pyret[t].kind = "PyOLOResult"
                  /\ py_epsilon_0(pyret[t]) = epsilon_0(ret[t])
                  /\ py_epsilon_minus_1(pyret[t]) = epsilon_minus_1(ret[t])
                  /\ py_epsilon_minus_2(pyret[t]) = epsilon_minus_2(ret[t])

\* C9's case: an IR-divergent box, whose three coefficients differ, was
\* evaluated through the binding layer.
C9_Witness ==
    /\ pyframe[PyThread].fn = "olo_4_point_complex_py"
    /\ pc[PyThread] = "done"
    /\ pyret[PyThread].kind = "PyOLOResult"
    /\ py_epsilon_minus_1(pyret[PyThread]) # py_epsilon_minus_2(pyret[PyThread])
    /\ py_epsilon_minus_2(pyret[PyThread]) = epsilon_minus_2(ret[PyThread])
    /\ epsilon_minus_2(ret[PyThread]) # Zero

\* C11: a result never changes after it has been returned: whatever evaluation
\* or setter call is made while a caller holds it, the value it holds and the
\* buffer the value was written in stay as they were at the return (a call
\* writes into its own buffer only), so its three coefficients read the same.
C11_ResultImmutable ==
    [][ \A t \in Threads :
          (pc[t] = "done" /\ pc'[t] = "done") =>
              /\ ret'[t] = ret[t]
              /\ mem'[t] = mem[t]
              /\ epsilon_0(ret'[t]) = engine[t].wrote[1]
              /\ epsilon_minus_1(ret'[t]) = engine[t].wrote[2]
              /\ epsilon_minus_2(ret'[t]) = engine[t].wrote[3] ]_vars

\* C11's case: a result is held while a setter ran and another evaluation,
\* of another function, wrote a different result into its own buffer.
C11_Witness ==
    \E t, u \in Threads :
        /\ t # u
        /\ pc[t] = "done" /\ pc[u] = "done"
        /\ stale[t] /\ lastMu # << >> /\ lastThr # << >>
        /\ frame[t].fn # frame[u].fn
        /\ epsilon_0(ret[t]) # Zero /\ epsilon_0(ret[u]) # Zero
        /\ ret[t].values = mem[t] /\ ret[u].values = mem[u]
        /\ mem[t] # mem[u]

\* Two names are the same up to the case of their letters.
EqIgnoreCase(a, b) ==
    /\ DOMAIN a = DOMAIN b
    /\ \A i \in DOMAIN a : lower_char[a[i]] = lower_char[b[i]]

\* The unit each recognized name stands for.
UnitOfName ==
    << << << "p", "r", "i", "n", "t", "a", "l", "l" >>, "PrintAll" >>,
       << << "m", "e", "s", "s", "a", "g", "e" >>, "Message" >>,
       << << "w", "a", "r", "n", "i", "n", "g" >>, "Warning" >>,
       << << "e", "r", "r", "o", "r" >>, "Error" >> >>

\* The calls a caller makes with a recognized name in some letter case:
\* << name, destination, unit the name stands for >>.
RecognizedCalls ==
    UNION { {<< name, value, UnitOfName[k][2] >> : value \in Destinations} :
              << name, k >> \in {nk \in UnitNames \X DOMAIN UnitOfName :
                                   EqIgnoreCase(nk[1], UnitOfName[nk[2]][1])} }

\* C12: set_olo_unit_py with a name that is "printall", "message", "warning" or
\* "error" in any letter case calls the log-unit setter once, returns success,
\* and the unit the name stands for, and no other, now has the caller's
\* destination as its sink, the standard-output sink if none was given.
C12_UnitNameCaseInsensitive ==
    [][ \A c \in RecognizedCalls :
          \/ /\ pyret'[PyThread].kind = "Ok"
             /\ pyframe'[PyThread].fn = "set_olo_unit_py"
             /\ pyframe'[PyThread].calls = 1
             /\ unit' = [unit EXCEPT
                           ![c[3]] = IF c[2] = None THEN StdOut ELSE c[2][1]]
          \/ ~set_olo_unit_py(PyThread, c[1], c[2]) ]_vars

\* C12's case: the names spelled "MESSAGE" and "Warning" were accepted with a
\* destination, the last call returning success after one call of the setter.
C12_Witness ==
    /\ pyret[PyThread].kind = "Ok"
    /\ pyframe[PyThread] = [fn |-> "set_olo_unit_py", args |-> << >>, calls |-> 1]
    /\ unit["Message"] = 0 /\ unit["Warning"] = 0
    /\ unit["PrintAll"] = StdOut /\ unit["Error"] = StdOut

====
